---- MODULE Spec2Model ----
(***************************************************************************)
(* Model of the task stack orchestrator (TaskManager) and of the state and *)
(* cache store (StateManager) of Roo-Code's webview managers.              *)
(*                                                                         *)
(* Every public async method is split at its await points: one action for  *)
(* the synchronous prefix, one for each continuation.  A caller's position *)
(* inside a method is kept in calls[c]; Spec lets one caller run (calls    *)
(* are serialised, as the host contract demands).  The store has its own   *)
(* specifications: StoreSpec (history and settings writes), RecentSpec     *)
(* (recent tasks over short and long histories), SettingsSpec (validation, *)
(* synchronisation, export, import) and AsyncStoreSpec (a read that        *)
(* overlaps a suspended history write).  AsyncSpec lets a second caller    *)
(* run while the first is suspended; FairAsyncSpec adds that every abort   *)
(* settles.                                                                *)
(***************************************************************************)
EXTENDS Integers, Sequences, FiniteSets, TLC

\* ------------------------------------------------------------- bounds
MaxTasks == 3      \* Task objects ever constructed
MaxPush == 3       \* pushes onto the stack in one run
MaxHistory == 1    \* Task objects constructed from a HistoryItem

VARIABLES
    taskStack,     \* TaskManager.taskStack : sequence of Task objects (by identity)
    tasks,         \* the Task objects constructed so far; index = object identity
    calls,         \* per caller: the method it is in and where
    nPush,         \* number of taskStack.push executed
    nPop,          \* number of taskStack.pop that removed a task
    pending,       \* the tasks pushed and not yet popped, in push order
    removed,       \* the Task objects that were popped at some time
    prepCalls,     \* tasks for which performPreparationTasks was invoked
    resumeSupported, \* whether the Task class has a resumePausedTask member
    settings,      \* the ContextProxy's key-value state behind the StateManager
    recentTasksCache, \* StateManager.recentTasksCache: <<>> (undefined) or <<ids>>
    now,           \* Date.now()
    scalls         \* per caller: the StateManager method it is in and where

taskVars == <<taskStack, tasks, calls, nPush, nPop, pending, removed, prepCalls,
              resumeSupported>>
storeVars == <<settings, recentTasksCache, now, scalls>>
vars == <<taskVars, storeVars>>

NoTask == 0
Callers == {1, 2}
Msgs == {"m1", "m2"}
HistoryNumbers == {2}
TaskIds == 1..MaxTasks
Instances == 1..Len(tasks)

\* ----------------------------------------------------- call records
\* The fields of a HistoryItem that createTaskWithHistoryItem reads.
HistoryArg(id, rootTask, number) == [id |-> id, rootTask |-> rootTask, number |-> number]

NoItem == HistoryArg(0, NoTask, 0)

IdleCall ==
    [op |-> "idle", pc |-> "idle", task |-> NoTask, id |-> 0, msg |-> "",
     item |-> NoItem, state |-> "", ctorOk |-> TRUE, ret |-> "", err |-> "",
     stack0 |-> <<>>, log |-> <<>>]

Ev(e, t, m) == [e |-> e, t |-> t, m |-> m]

\* A caller may start a method when it is not inside one.
Free(c) == calls[c].pc \in {"idle", "done"}

Enter(c, op) == [IdleCall EXCEPT !.op = op, !.stack0 = taskStack]

\* ------------------------------------------------ pure stack helpers
\* taskStack.push(task)
Pushed(stack, t) == Append(stack, t)

\* Mutant of Popped: shift() in place of pop().
PoppedFromBottom(stack) == Tail(stack)

\* the array left by taskStack.pop()
Popped(stack) == SubSeq(stack, 1, Len(stack) - 1)

\* the value returned by taskStack.pop()
PopResult(stack) == stack[Len(stack)]

getCurrentTask ==
    IF Len(taskStack) = 0 THEN NoTask ELSE taskStack[Len(taskStack)]

getTaskStackSize == Len(taskStack)

getCurrentTaskStack == [i \in 1..Len(taskStack) |-> tasks[taskStack[i]].taskId]

getRootTask == IF Len(taskStack) > 0 THEN taskStack[1] ELSE NoTask

FirstIndex(S) == CHOOSE i \in S : \A j \in S : i <= j

findTaskById(taskId) ==
    LET hits == {i \in 1..Len(taskStack) : tasks[taskStack[i]].taskId = taskId}
    IN  IF hits = {} THEN NoTask ELSE taskStack[FirstIndex(hits)]

\* "resumePausedTask" in currentTask: a member of the Task class, so every Task
\* object has it or none has.
SupportsResume(t) == resumeSupported

\* Task construction (new Task({...})), TaskManager.ts 142-159 and 180-194:
\* the fields the orchestrator passes and later reads.
NewTask(taskId, rootTask, taskNumber, origin) ==
    [taskId |-> taskId, rootTask |-> rootTask, taskNumber |-> taskNumber,
     origin |-> origin]

\* A task id no constructed task carries (the constructor draws a fresh one).
FreshTaskId ==
    FirstIndex(TaskIds \ {tasks[i].taskId : i \in Instances})

\* Mutant of PopEffects: the abort is requested before Unfocused is emitted.
PopEffectsAbortFirst(t) == <<Ev("AbortRequested", t, ""), Ev("Unfocused", t, "")>>

\* What removeTaskFromStack does to the popped task before it suspends:
\* emit Unfocused, then call abortTask(true).
PopEffects(t) == <<Ev("Unfocused", t, ""), Ev("AbortRequested", t, "")>>

\* What addTaskToStack does to the pushed task.
PushEffects(t) == <<Ev("Focused", t, "")>>

\* Mutant of StackAfterAbort: a task whose abort failed is put back.
StackAfterAbortRestoring(stack, t, ok) == IF ok THEN stack ELSE Append(stack, t)

\* The stack once the awaited abort has settled: the catch block only logs.
StackAfterAbort(stack, t, ok) == stack

\* Mutant of RemoveSwallows: the try/catch is missing.
RemovePropagates == FALSE

\* try { await task.abortTask(true) } catch: the failure stops here.
RemoveSwallows == TRUE

\* await currentTask.abortTask() in cancelTask has no handler around it.
CancelSwallows == FALSE

SettleEv(t, ok) == Ev(IF ok THEN "AbortResolved" ELSE "AbortRejected", t, "")

Log(rec, evs) == [rec EXCEPT !.log = rec.log \o evs]

Done(rec, ret) == [rec EXCEPT !.pc = "done", !.ret = ret]

\* The synchronous part of removeTaskFromStack on a non-empty stack.
PopAndAbort(c, rec) ==
    LET t == PopResult(taskStack)
    IN  /\ taskStack' = Popped(taskStack)
        /\ nPop' = nPop + 1
        /\ pending' = SubSeq(pending, 1, Len(pending) - 1)
        /\ removed' = removed \cup {t}
        /\ calls' = [calls EXCEPT ![c] =
                        [Log(rec, PopEffects(t)) EXCEPT !.pc = "abort", !.task = t]]

\* ------------------------------------------------------------ actions
\* addTaskToStack(task)
AddTaskToStack(c) ==
    \E t \in Instances :
        /\ Free(c)
        /\ nPush < MaxPush
        /\ taskStack' = Pushed(taskStack, t)
        /\ nPush' = nPush + 1
        /\ pending' = Append(pending, t)
        /\ calls' = [calls EXCEPT ![c] =
                        Done([Log(Enter(c, "addTaskToStack"), PushEffects(t))
                                  EXCEPT !.task = t], "ok")]
        /\ UNCHANGED <<tasks, nPop, removed, prepCalls, resumeSupported, storeVars>>

\* removeTaskFromStack(): up to the await of abortTask
RemoveTaskFromStack(c) ==
    /\ Free(c)
    /\ IF Len(taskStack) = 0
         THEN /\ calls' = [calls EXCEPT ![c] = Done(Enter(c, "removeTaskFromStack"), "ok")]
              /\ UNCHANGED <<taskStack, nPop, pending, removed>>
         ELSE PopAndAbort(c, Enter(c, "removeTaskFromStack"))
    /\ UNCHANGED <<tasks, nPush, prepCalls, resumeSupported, storeVars>>

\* removeTaskFromStack(): the abort settled
RemoveSettled(c) ==
    \E ok \in BOOLEAN :
        LET rec == calls[c]
        IN  /\ rec.op \in {"removeTaskFromStack", "clearCurrentTask"}
            /\ rec.pc = "abort"
            /\ taskStack' = StackAfterAbort(taskStack, rec.task, ok)
            /\ calls' = [calls EXCEPT ![c] =
                  Done(Log(rec, <<SettleEv(rec.task, ok)>>),
                       IF ok \/ RemoveSwallows THEN "ok" ELSE "throw")]
            /\ UNCHANGED <<tasks, nPush, nPop, pending, removed, prepCalls,
                         resumeSupported, storeVars>>

\* clearCurrentTask()
ClearCurrentTask(c) ==
    /\ Free(c)
    /\ IF Len(taskStack) > 0
         THEN PopAndAbort(c, Enter(c, "clearCurrentTask"))
         ELSE /\ calls' = [calls EXCEPT ![c] = Done(Enter(c, "clearCurrentTask"), "ok")]
              /\ UNCHANGED <<taskStack, nPop, pending, removed>>
    /\ UNCHANGED <<tasks, nPush, prepCalls, resumeSupported, storeVars>>

\* Mutant of ClearLoopContinues: the loop pops as many tasks as the stack
\* held when clearAllTasks was called.
ClearLoopCountsEntry(rec, stack) ==
    /\ Len(stack) > 0
    /\ Len(SelectSeq(rec.log, LAMBDA ev : ev.e = "Unfocused")) < Len(rec.stack0)

\* The loop test of clearAllTasks, on the stack as it is when the test runs.
ClearLoopContinues(rec, stack) == Len(stack) > 0

\* clearAllTasks(): the loop test and the first pop
ClearAllTasks(c) ==
    /\ Free(c)
    /\ IF ClearLoopContinues(Enter(c, "clearAllTasks"), taskStack)
         THEN PopAndAbort(c, Enter(c, "clearAllTasks"))
         ELSE /\ calls' = [calls EXCEPT ![c] = Done(Enter(c, "clearAllTasks"), "ok")]
              /\ UNCHANGED <<taskStack, nPop, pending, removed>>
    /\ UNCHANGED <<tasks, nPush, prepCalls, resumeSupported, storeVars>>

\* clearAllTasks(): an abort settled; the loop tests again and pops the next
ClearAllSettled(c) ==
    \E ok \in BOOLEAN :
        LET rec == calls[c]
            after == Log(rec, <<SettleEv(rec.task, ok)>>)
            stack == StackAfterAbort(taskStack, rec.task, ok)
        IN  /\ rec.op = "clearAllTasks"
            /\ rec.pc = "abort"
            /\ IF ~(ok \/ RemoveSwallows)
                 THEN /\ taskStack' = stack
                      /\ calls' = [calls EXCEPT ![c] = Done(after, "throw")]
                      /\ UNCHANGED <<nPop, pending, removed>>
                 ELSE IF ClearLoopContinues(after, stack)
                 THEN LET t == PopResult(stack)
                      IN  /\ taskStack' = Popped(stack)
                          /\ nPop' = nPop + 1
                          /\ pending' = SubSeq(pending, 1, Len(pending) - 1)
                          /\ removed' = removed \cup {t}
                          /\ calls' = [calls EXCEPT ![c] =
                                [Log(after, PopEffects(t)) EXCEPT !.task = t]]
                 ELSE /\ taskStack' = stack
                      /\ calls' = [calls EXCEPT ![c] = Done(after, "ok")]
                      /\ UNCHANGED <<nPop, pending, removed>>
            /\ UNCHANGED <<tasks, nPush, prepCalls, resumeSupported, storeVars>>

\* What getState() can hand to createTask: a rejection, a value that cannot be
\* destructured (undefined), a state without apiConfiguration, a usable state.
StateOutcomes == {"rejects", "undefined", "noApiConfiguration", "usable"}

\* Mutant of StateUsable: only a rejection counts as a failure.
StateUsableUnlessRejected(outcome) == outcome # "rejects"

\* const {apiConfiguration, ...} = state ... apiConfiguration.consecutiveMistakeLimit
StateUsable(outcome) == outcome = "usable"

\* Mutant of CreateRootTask: a task created on an empty stack is its own root.
CreateRootTaskOrSelf == IF Len(taskStack) > 0 THEN taskStack[1] ELSE Len(tasks) + 1

\* rootTask: this.getRootTask()
CreateRootTask == getRootTask

\* Mutant of CreateTaskNumber: a counter of the tasks ever constructed.
CreateTaskNumberFromCount == Len(tasks) + 1

\* taskNumber: this.getTaskStackSize() + 1
CreateTaskNumber == getTaskStackSize + 1

\* createTask(...): up to the await of getState()
CreateTask(c) ==
    /\ Free(c)
    /\ Len(tasks) < MaxTasks
    /\ nPush < MaxPush
    /\ calls' = [calls EXCEPT ![c] = [Enter(c, "createTask") EXCEPT !.pc = "getState"]]
    /\ UNCHANGED <<taskStack, tasks, nPush, nPop, pending, removed, prepCalls,
                         resumeSupported, storeVars>>

\* Mutant of NewInstance: the object constructed last is pushed once more.
LastInstance == IF Len(tasks) > 0 THEN Len(tasks) ELSE 1

\* const task = new Task({...}): the object just constructed
NewInstance == Len(tasks) + 1

\* The tail of createTask and createTaskWithHistoryItem once the Task exists:
\* await this.addTaskToStack(task); return task
ConstructAndPush(c, rec, task) ==
    LET t == NewInstance
    IN  /\ Len(tasks) < MaxTasks
        /\ nPush < MaxPush
        /\ tasks' = Append(tasks, task)
        /\ taskStack' = Pushed(taskStack, t)
        /\ nPush' = nPush + 1
        /\ pending' = Append(pending, t)
        /\ calls' = [calls EXCEPT ![c] =
                        Done([Log(rec, PushEffects(t)) EXCEPT !.task = t], "ok")]

\* Why construction failed: the awaited getState() rejected, the destructuring or
\* the read of apiConfiguration.consecutiveMistakeLimit threw, or new Task threw.
CreateError(outcome) ==
    IF outcome = "rejects" THEN "getState rejected"
    ELSE IF ~StateUsable(outcome) THEN "state unusable"
    ELSE "constructor threw"

CreateFails(c, rec, outcome) ==
    /\ calls' = [calls EXCEPT ![c] =
                    [Done(rec, "throw") EXCEPT !.err = CreateError(outcome)]]
    /\ UNCHANGED <<taskStack, tasks, nPush, pending>>

\* createTask(...): getState() settled; destructure, construct, push
CreateTaskResumed(c) ==
    \E outcome \in StateOutcomes, ctorOk \in BOOLEAN :
        LET rec == calls[c]
            got == [calls[c] EXCEPT !.state = outcome, !.ctorOk = ctorOk]
        IN  /\ rec.op = "createTask"
            /\ rec.pc = "getState"
            /\ IF StateUsable(outcome) /\ ctorOk
                 THEN ConstructAndPush(c, got,
                          NewTask(FreshTaskId, CreateRootTask, CreateTaskNumber,
                                  "createTask"))
                 ELSE /\ StateUsable(outcome) => ~ctorOk
                      /\ ~StateUsable(outcome) => ctorOk
                      /\ CreateFails(c, got, outcome)
            /\ UNCHANGED <<nPop, removed, prepCalls, resumeSupported, storeVars>>

\* createTaskWithHistoryItem(historyItem): up to the await of getState()
CreateTaskWithHistoryItem(c) ==
    \E id \in TaskIds, root \in {NoTask} \cup Instances, number \in HistoryNumbers :
        /\ Free(c)
        /\ Cardinality({i \in Instances : tasks[i].origin = "createTaskWithHistoryItem"})
               < MaxHistory
        /\ Len(tasks) < MaxTasks
        /\ nPush < MaxPush
        /\ calls' = [calls EXCEPT ![c] =
              [Enter(c, "createTaskWithHistoryItem") EXCEPT
                  !.pc = "getState", !.item = HistoryArg(id, root, number)]]
        /\ UNCHANGED <<taskStack, tasks, nPush, nPop, pending, removed, prepCalls,
                         resumeSupported, storeVars>>

\* createTaskWithHistoryItem(historyItem): getState() settled
CreateTaskWithHistoryItemResumed(c) ==
    \E outcome \in StateOutcomes, ctorOk \in BOOLEAN :
        LET rec == calls[c]
            got == [calls[c] EXCEPT !.state = outcome, !.ctorOk = ctorOk]
        IN  /\ rec.op = "createTaskWithHistoryItem"
            /\ rec.pc = "getState"
            /\ IF StateUsable(outcome) /\ ctorOk
                 THEN ConstructAndPush(c, got,
                          NewTask(rec.item.id, rec.item.rootTask, rec.item.number,
                                  "createTaskWithHistoryItem"))
                 ELSE /\ StateUsable(outcome) => ~ctorOk
                      /\ ~StateUsable(outcome) => ctorOk
                      /\ CreateFails(c, got, outcome)
            /\ UNCHANGED <<nPop, removed, prepCalls, resumeSupported, storeVars>>

\* cancelTask(): up to the await of abortTask()
CancelTask(c) ==
    LET currentTask == getCurrentTask
        rec == Enter(c, "cancelTask")
    IN  /\ Free(c)
        /\ calls' = [calls EXCEPT ![c] =
              IF currentTask = NoTask
                THEN Done(rec, "ok")
                ELSE [Log(rec, <<Ev("AbortRequested", currentTask, "")>>)
                         EXCEPT !.pc = "abort", !.task = currentTask]]
        /\ UNCHANGED <<taskStack, tasks, nPush, nPop, pending, removed, prepCalls,
                         resumeSupported, storeVars>>

\* cancelTask(): the abort settled
CancelSettled(c) ==
    \E ok \in BOOLEAN :
        LET rec == calls[c]
        IN  /\ rec.op = "cancelTask"
            /\ rec.pc = "abort"
            /\ calls' = [calls EXCEPT ![c] =
                  [Done(Log(rec, <<SettleEv(rec.task, ok)>>),
                        IF ok \/ CancelSwallows THEN "ok" ELSE "throw")
                     EXCEPT !.err = IF ok \/ CancelSwallows THEN "" ELSE "abort rejected"]]
            /\ UNCHANGED <<taskStack, tasks, nPush, nPop, pending, removed, prepCalls,
                         resumeSupported, storeVars>>

\* Mutant of ResumeEffects: the already-current test is dropped.
ResumeEffectsAlways(task) == <<Ev("Focused", task, "")>>

\* The events resumeTask emits for the task it found.
ResumeEffects(task) ==
    IF task = getCurrentTask THEN <<>> ELSE <<Ev("Focused", task, "")>>

\* resumeTask(taskId)
ResumeTask(c) ==
    \E taskId \in TaskIds :
        LET task == findTaskById(taskId)
            rec == [Enter(c, "resumeTask") EXCEPT !.id = taskId, !.task = task]
        IN  /\ Free(c)
            /\ calls' = [calls EXCEPT ![c] =
                  IF task = NoTask
                    THEN Done(rec, "false")
                    ELSE Done(Log(rec, ResumeEffects(task)), "true")]
            /\ UNCHANGED <<taskStack, tasks, nPush, nPop, pending, removed, prepCalls,
                         resumeSupported, storeVars>>

\* finishSubTask(lastMessage): await this.removeTaskFromStack(), up to its await
FinishSubTask(c) ==
    \E lastMessage \in Msgs :
        LET rec == [Enter(c, "finishSubTask") EXCEPT !.msg = lastMessage]
        IN  /\ Free(c)
            /\ IF Len(taskStack) = 0
                 THEN /\ calls' = [calls EXCEPT ![c] = [rec EXCEPT !.pc = "removed"]]
                      /\ UNCHANGED <<taskStack, nPop, pending, removed>>
                 ELSE PopAndAbort(c, rec)
            /\ UNCHANGED <<tasks, nPush, prepCalls, resumeSupported, storeVars>>

\* Mutant of ResumeTarget: the membership test is dropped.
ResumeTargetUnchecked == getCurrentTask

\* The task finishSubTask resumes, if any: the current task when it has a
\* resumePausedTask member.
ResumeTarget ==
    LET currentTask == getCurrentTask
    IN  IF currentTask # NoTask /\ SupportsResume(currentTask)
          THEN currentTask ELSE NoTask

\* finishSubTask: removeTaskFromStack returned; look up the parent and resume it
FinishRemoved(c) ==
    \E ok \in BOOLEAN :
        LET rec == calls[c]
            after == IF rec.pc = "abort"
                       THEN Log(rec, <<SettleEv(rec.task, ok)>>) ELSE rec
            target == ResumeTarget
        IN  /\ rec.op = "finishSubTask"
            /\ rec.pc \in {"abort", "removed"}
            /\ rec.pc = "removed" => ok
            /\ taskStack' = IF rec.pc = "abort"
                              THEN StackAfterAbort(taskStack, rec.task, ok)
                              ELSE taskStack
            /\ calls' = [calls EXCEPT ![c] =
                  IF ~(ok \/ RemoveSwallows)
                    THEN Done(after, "throw")
                  ELSE IF target = NoTask
                    THEN Done(after, "ok")
                  ELSE [Log(after, <<Ev("Resume", target, rec.msg)>>)
                           EXCEPT !.pc = "resume", !.task = target]]
            /\ UNCHANGED <<tasks, nPush, nPop, pending, removed, prepCalls,
                         resumeSupported, storeVars>>

\* finishSubTask: resumePausedTask(lastMessage) settled
FinishResumed(c) ==
    \E ok \in BOOLEAN :
        LET rec == calls[c]
        IN  /\ rec.op = "finishSubTask"
            /\ rec.pc = "resume"
            /\ calls' = [calls EXCEPT ![c] =
                  [Done(rec, IF ok THEN "ok" ELSE "throw")
                     EXCEPT !.err = IF ok THEN "" ELSE "resume rejected"]]
            /\ UNCHANGED <<taskStack, tasks, nPush, nPop, pending, removed, prepCalls,
                         resumeSupported, storeVars>>

\* ============================================================ the store
\* An optional value: <<>> is undefined, <<v>> is v.
Undefined == <<>>
Some(v) == <<v>>

\* this.workspacePath
Workspace == "/w"

DayMs == 24 * 60 * 60 * 1000

\* Date.now() - 7 * 24 * 60 * 60 * 1000
SevenDaysBefore(t) == t - 7 * DayMs

\* workspaceTasks.length >= 100, Math.min(100, ...)
RecentLimit == 100

\* The instant the model's clock shows (TLC integers are 32 bits wide).
Epoch == 20 * DayMs

HistoryItem(id, ts, task, workspace) ==
    [id |-> id, ts |-> ts, task |-> task, workspace |-> workspace]

\* History items the callers write: a recent and an old record of task 1, a
\* record of task 2, and records the recent-tasks filter drops (no timestamp,
\* no task text, another workspace).
RecentItem == HistoryItem(1, Epoch - DayMs, "fix", Workspace)
OldItem == HistoryItem(1, Epoch - 9 * DayMs, "fix", Workspace)
OtherItem == HistoryItem(2, Epoch - 2 * DayMs, "fix", Workspace)
NoTsItem == HistoryItem(2, 0, "fix", Workspace)
NoTextItem == HistoryItem(2, Epoch - DayMs, "", Workspace)
ForeignItem == HistoryItem(2, Epoch - DayMs, "fix", "/other")

\* a record without an id
NoIdItem == HistoryItem(0, Epoch - DayMs, "fix", Workspace)

ItemPool == {RecentItem, OldItem, OtherItem, NoTsItem, NoTextItem, ForeignItem,
             NoIdItem}

MaxHistLen == 2    \* items in a persisted history

\* The histories an earlier session may have persisted.
Histories == UNION {[1..k -> ItemPool] : k \in 0..MaxHistLen}

\* A long history, oldest record first (records are appended as tasks are
\* discovered): n records of this workspace, evenly spread over the span that
\* ends at the model's clock.
LongHistory(n, span) ==
    [i \in 1..n |->
        HistoryItem(10 + i, Epoch - (n - i) * (span \div n), "fix", Workspace)]

\* Long histories around the limit: half of it, the limit itself, one and a
\* half times it, each spread over ten days; and the limit plus one spread
\* over three days.
LongHistories ==
    {LongHistory(RecentLimit \div 2, 10 * DayMs),
     LongHistory(RecentLimit, 10 * DayMs),
     LongHistory(RecentLimit + RecentLimit \div 2, 10 * DayMs),
     LongHistory(RecentLimit + 1, 3 * DayMs)}

\* The histories a caller writes wholesale.
WrittenHistories == {<<>>, <<RecentItem>>, <<OldItem, OtherItem>>, <<ForeignItem>>}

Keys == {"taskHistory", "currentApiConfigName", "maxOpenTabsContext",
         "maxWorkspaceFiles"}

\* The keys the history-centred specifications write.
HistoryKeys == {"taskHistory", "currentApiConfigName"}

\* The values callers write: for the two numeric settings, one below the
\* range validateState names, one inside it and one above.
ValuesOf(key) ==
    IF key = "taskHistory"
      THEN {Undefined} \cup {Some(h) : h \in WrittenHistories}
    ELSE IF key = "currentApiConfigName"
      THEN {Undefined, Some("default"), Some("other")}
    ELSE IF key = "maxOpenTabsContext"
      THEN {Undefined, Some(0), Some(50), Some(101)}
      ELSE {Undefined, Some(0), Some(500), Some(1001)}

\* contextProxy.setValue(key, value): the proxy's state after the call
ProxySetValue(st, key, value) == [st EXCEPT ![key] = value]

\* contextProxy.setValues(values): every key of values is written
ProxySetValues(st, values) ==
    [k \in Keys |-> IF k \in DOMAIN values THEN values[k] ELSE st[k]]

\* contextProxy.resetAllState()
ProxyReset == [k \in Keys |-> Undefined]

\* contextProxy.getValue(key)
getGlobalState(key) == settings[key]

\* this.getGlobalState("taskHistory") ?? []
getTaskHistory ==
    IF getGlobalState("taskHistory") = Undefined
      THEN <<>> ELSE getGlobalState("taskHistory")[1]

\* history.findIndex((h) => h.id === item.id), 0 when there is none
FindIndex(history, id) ==
    LET hits == {i \in 1..Len(history) : history[i].id = id}
    IN  IF hits = {} THEN 0 ELSE FirstIndex(hits)

\* Mutant of UpdatedHistory: the record is appended whether or not its id exists.
UpdatedHistoryAppending(history, item) == Append(history, item)

\* the array updateTaskHistory writes back
UpdatedHistory(history, item) ==
    LET existingItemIndex == FindIndex(history, item.id)
    IN  IF existingItemIndex # 0
          THEN [history EXCEPT ![existingItemIndex] = item]
          ELSE Append(history, item)

\* item.ts && item.task && item.workspace === this.workspacePath
InWorkspace(item) == item.ts # 0 /\ item.task # "" /\ item.workspace = Workspace

\* workspaceTasks.sort((a, b) => b.ts - a.ts): descending by timestamp, and
\* stable (elements the comparator calls equal keep their order).  The place
\* of an element is one more than the number of elements that go before it.
SortByTsDesc(items) ==
    LET n == Len(items)
        place == [i \in 1..n |->
                    1 + Cardinality({j \in 1..n :
                            \/ items[j].ts > items[i].ts
                            \/ items[j].ts = items[i].ts /\ j < i})]
    IN  [k \in 1..n |-> items[CHOOSE i \in 1..n : place[i] = k]]

Ids(items) == [i \in 1..Len(items) |-> items[i].id]

MinOf(a, b) == IF a <= b THEN a ELSE b

\* Mutant of UseWindow: the window applies above the limit only.
UseWindowAboveLimit(count) == count > RecentLimit

\* if (workspaceTasks.length >= 100)
UseWindow(count) == count >= RecentLimit

\* What getRecentTasks computes when nothing is cached.
ComputeRecentTasks(history, t) ==
    LET workspaceTasks == SelectSeq(history, InWorkspace)
        sorted == SortByTsDesc(workspaceTasks)
    IN  IF Len(workspaceTasks) = 0 THEN <<>>
        ELSE IF UseWindow(Len(workspaceTasks))
          THEN Ids(SelectSeq(sorted, LAMBDA item : item.ts >= SevenDaysBefore(t)))
          ELSE Ids(SubSeq(sorted, 1, MinOf(RecentLimit, Len(sorted))))

\* Mutant of InvalidatesTaskCache: the key is misspelt.
InvalidatesOnHistoryKey(key) == key = "history"

\* if (key === "taskHistory") this.invalidateTaskCache()
InvalidatesTaskCache(key) == key = "taskHistory"

\* setValues: this.invalidateAllCaches(), whatever the keys written
SetValuesInvalidates(keys) == TRUE

\* getCacheStats().recentTasksCached
recentTasksCached == recentTasksCache # Undefined

\* ----------------------------------------------- store call records
\* What a method found when it was called: the proxy's state and the cache.
Snapshot(st, cache) == [settings |-> st, cache |-> cache]

NoSnapshot == Snapshot(ProxyReset, Undefined)

NoHistoryItem == HistoryItem(0, 0, "", "")

\* A backup as importState receives it.  shape tells what the argument is: a
\* backup with a state object ("wellFormed"), no backup at all ("missing"), a
\* backup without state ("noState"), a backup whose state is no object
\* ("stateNotObject"); state is read for a well-formed backup only.
Backup(shape, state, timestamp, workspace) ==
    [shape |-> shape, state |-> state,
     metadata |-> [timestamp |-> timestamp, workspace |-> workspace]]

NoState == [k \in {} |-> Undefined]

NoBackup == Backup("none", NoState, 0, "")

SIdle ==
    [op |-> "idle", pc |-> "idle", key |-> "", keys |-> {}, ret |-> "",
     result |-> <<>>, cached |-> FALSE, afterWrite |-> FALSE,
     item |-> NoHistoryItem, before |-> NoSnapshot,
     errors |-> <<>>, changes |-> Undefined, err |-> "",
     backup |-> NoBackup, ownExport |-> FALSE]

SFree(c) == scalls[c].pc \in {"idle", "done"}

\* The methods that write the history key.
WritesHistory(rec) ==
    \/ rec.op \in {"updateTaskHistory", "resetTaskHistory", "resetState"}
    \/ rec.op \in {"updateGlobalState", "setValue"} /\ rec.key = "taskHistory"
    \/ rec.op = "setValues"

CompletedHistoryWrite(rec) == rec.pc = "done" /\ rec.ret = "ok" /\ WritesHistory(rec)

SEnter(c, op) ==
    [SIdle EXCEPT !.op = op, !.afterWrite = CompletedHistoryWrite(scalls[c])]

SDone(rec, ret) == [rec EXCEPT !.pc = "done", !.ret = ret]

\* ------------------------------------------------------ store actions
\* updateGlobalState(key, value): up to the await of contextProxy.setValue
UpdateGlobalState(c, keys) ==
    \E key \in keys :
        \E value \in ValuesOf(key) :
            /\ SFree(c)
            /\ settings' = ProxySetValue(settings, key, value)
            /\ scalls' = [scalls EXCEPT ![c] =
                  [SEnter(c, "updateGlobalState") EXCEPT !.pc = "write", !.key = key]]
            /\ UNCHANGED <<recentTasksCache, now, taskVars>>

\* updateGlobalState, and the methods built on it: the write settled
UpdateGlobalStateSettled(c) ==
    \E ok \in BOOLEAN :
        LET rec == scalls[c]
        IN  /\ rec.op \in {"updateGlobalState", "updateTaskHistory", "resetTaskHistory"}
            /\ rec.pc = "write"
            /\ recentTasksCache' =
                  IF ok /\ InvalidatesTaskCache(rec.key) THEN Undefined ELSE recentTasksCache
            /\ scalls' = [scalls EXCEPT ![c] = SDone(rec, IF ok THEN "ok" ELSE "throw")]
            /\ UNCHANGED <<settings, now, taskVars>>

\* updateTaskHistory(item): replace or append, then updateGlobalState
UpdateTaskHistory(c) ==
    \E item \in ItemPool :
        LET history == UpdatedHistory(getTaskHistory, item)
        IN  /\ SFree(c)
            /\ Len(history) <= MaxHistLen
            /\ settings' = ProxySetValue(settings, "taskHistory", Some(history))
            /\ scalls' = [scalls EXCEPT ![c] =
                  [SEnter(c, "updateTaskHistory") EXCEPT
                      !.pc = "write", !.key = "taskHistory", !.result = history,
                      !.item = item,
                      !.before = Snapshot(settings, recentTasksCache)]]
            /\ UNCHANGED <<recentTasksCache, now, taskVars>>

\* resetTaskHistory(): updateGlobalState("taskHistory", [])
ResetTaskHistory(c) ==
    /\ SFree(c)
    /\ settings' = ProxySetValue(settings, "taskHistory", Some(<<>>))
    /\ scalls' = [scalls EXCEPT ![c] =
          [SEnter(c, "resetTaskHistory") EXCEPT !.pc = "write", !.key = "taskHistory"]]
    /\ UNCHANGED <<recentTasksCache, now, taskVars>>

\* setValue(key, value): up to the await of contextProxy.setValue
SetValue(c, keys) ==
    \E key \in keys :
        \E value \in ValuesOf(key) :
            /\ SFree(c)
            /\ settings' = ProxySetValue(settings, key, value)
            /\ scalls' = [scalls EXCEPT ![c] =
                  [SEnter(c, "setValue") EXCEPT !.pc = "write", !.key = key]]
            /\ UNCHANGED <<recentTasksCache, now, taskVars>>

\* setValue: the write settled
SetValueSettled(c) ==
    \E ok \in BOOLEAN :
        LET rec == scalls[c]
        IN  /\ rec.op = "setValue"
            /\ rec.pc = "write"
            /\ recentTasksCache' =
                  IF ok /\ InvalidatesTaskCache(rec.key) THEN Undefined ELSE recentTasksCache
            /\ scalls' = [scalls EXCEPT ![c] = SDone(rec, IF ok THEN "ok" ELSE "throw")]
            /\ UNCHANGED <<settings, now, taskVars>>

\* The bulk values a caller hands to setValues: any keys, any values.
BulkValues ==
    {[k \in ks |-> IF k = "taskHistory" THEN h ELSE n] :
        ks \in SUBSET {"taskHistory", "currentApiConfigName"},
        h \in ValuesOf("taskHistory"),
        n \in ValuesOf("currentApiConfigName")}
    \cup {[maxOpenTabsContext |-> a, maxWorkspaceFiles |-> b] :
            a \in ValuesOf("maxOpenTabsContext"), b \in ValuesOf("maxWorkspaceFiles")}

\* setValues(values): up to the await of contextProxy.setValues
SetValues(c, keys) ==
    \E values \in {v \in BulkValues : DOMAIN v \subseteq keys} :
        /\ SFree(c)
        /\ settings' = ProxySetValues(settings, values)
        /\ scalls' = [scalls EXCEPT ![c] =
              [SEnter(c, "setValues") EXCEPT !.pc = "write", !.keys = DOMAIN values]]
        /\ UNCHANGED <<recentTasksCache, now, taskVars>>

\* setValues: the write settled
SetValuesSettled(c) ==
    \E ok \in BOOLEAN :
        LET rec == scalls[c]
        IN  /\ rec.op = "setValues"
            /\ rec.pc = "write"
            /\ recentTasksCache' =
                  IF ok /\ SetValuesInvalidates(rec.keys) THEN Undefined ELSE recentTasksCache
            /\ scalls' = [scalls EXCEPT ![c] = SDone(rec, IF ok THEN "ok" ELSE "throw")]
            /\ UNCHANGED <<settings, now, taskVars>>

\* resetState(): up to the await of contextProxy.resetAllState
ResetState(c) ==
    /\ SFree(c)
    /\ settings' = ProxyReset
    /\ scalls' = [scalls EXCEPT ![c] = [SEnter(c, "resetState") EXCEPT !.pc = "write"]]
    /\ UNCHANGED <<recentTasksCache, now, taskVars>>

\* resetState(): the wipe settled; a failure is logged and thrown again
ResetStateSettled(c) ==
    \E ok \in BOOLEAN :
        LET rec == scalls[c]
        IN  /\ rec.op = "resetState"
            /\ rec.pc = "write"
            /\ recentTasksCache' = IF ok THEN Undefined ELSE recentTasksCache
            /\ scalls' = [scalls EXCEPT ![c] = SDone(rec, IF ok THEN "ok" ELSE "throw")]
            /\ UNCHANGED <<settings, now, taskVars>>

\* getRecentTasks()
GetRecentTasks(c) ==
    LET hit == recentTasksCache # Undefined
        recent == IF hit THEN recentTasksCache[1]
                  ELSE ComputeRecentTasks(getTaskHistory, now)
    IN  /\ SFree(c)
        /\ recentTasksCache' = Some(recent)
        /\ scalls' = [scalls EXCEPT ![c] =
              SDone([SEnter(c, "getRecentTasks") EXCEPT
                        !.result = recent, !.cached = hit], "ok")]
        /\ UNCHANGED <<settings, now, taskVars>>

\* clearCache()
ClearCache(c) ==
    /\ SFree(c)
    /\ recentTasksCache' = Undefined
    /\ scalls' = [scalls EXCEPT ![c] = SDone(SEnter(c, "clearCache"), "ok")]
    /\ UNCHANGED <<settings, now, taskVars>>

\* ---------------------------------------- validation, export, import
\* a JavaScript number in a condition: undefined and 0 count as false
NumberTruthy(v) == v # Undefined /\ v[1] # 0

\* a JavaScript string in a condition: undefined and "" count as false
StringTruthy(v) == v # Undefined /\ v[1] # ""

\* state.x && (state.x < lo || state.x > hi)
OutOfRange(v, lo, hi) == NumberTruthy(v) /\ (v[1] < lo \/ v[1] > hi)

\* !item.id || !item.ts
ItemIncomplete(item) == item.id = 0 \/ item.ts = 0

ItemError == "Invalid task history item: missing id or timestamp"
TabsError == "Invalid maxOpenTabsContext: must be between 1-100"
FilesError == "Invalid maxWorkspaceFiles: must be between 1-1000"

\* the errors validateState collects, in the order it pushes them
ValidationErrors(state, taskHistory) ==
    [i \in 1..Len(SelectSeq(taskHistory, ItemIncomplete)) |-> ItemError]
    \o (IF OutOfRange(state["maxOpenTabsContext"], 1, 100) THEN <<TabsError>> ELSE <<>>)
    \o (IF OutOfRange(state["maxWorkspaceFiles"], 1, 1000) THEN <<FilesError>> ELSE <<>>)

\* validateState()
ValidateState(c) ==
    LET errors == ValidationErrors(settings, getTaskHistory)
    IN  /\ SFree(c)
        /\ scalls' = [scalls EXCEPT ![c] =
              SDone([SEnter(c, "validateState") EXCEPT
                        !.errors = errors,
                        !.before = Snapshot(settings, recentTasksCache)],
                    IF Len(errors) = 0 THEN "valid" ELSE "invalid")]
        /\ UNCHANGED <<settings, recentTasksCache, now, taskVars>>

\* Mutant of SyncSucceeds: the validation result is not looked at.
SyncSucceedsUnvalidated(isValid, threw) == ~threw

\* syncWithCloud reaches return { success: true, changes: 0 }
SyncSucceeds(isValid, threw) == isValid /\ ~threw

\* syncWithCloud(): validateState may throw (threw) or report errors; both end
\* in the catch block
SyncWithCloud(c) ==
    \E threw \in BOOLEAN :
        LET errors == ValidationErrors(settings, getTaskHistory)
            success == SyncSucceeds(Len(errors) = 0, threw)
        IN  /\ SFree(c)
            /\ scalls' = [scalls EXCEPT ![c] =
                  SDone([SEnter(c, "syncWithCloud") EXCEPT
                            !.errors = IF threw THEN <<>> ELSE errors,
                            !.err = IF threw THEN "validateState threw" ELSE "",
                            !.changes = IF success THEN Some(0) ELSE Undefined,
                            !.before = Snapshot(settings, recentTasksCache)],
                        IF success THEN "success" ELSE "failure")]
            /\ UNCHANGED <<settings, recentTasksCache, now, taskVars>>

\* exportState()
ExportState(c) ==
    /\ SFree(c)
    /\ scalls' = [scalls EXCEPT ![c] =
          SDone([SEnter(c, "exportState") EXCEPT
                    !.backup = Backup("wellFormed", settings, now, Workspace),
                    !.before = Snapshot(settings, recentTasksCache)], "ok")]
    /\ UNCHANGED <<settings, recentTasksCache, now, taskVars>>

\* obj[key] of a JavaScript object: undefined when the key is absent
Field(obj, key) == IF key \in DOMAIN obj THEN obj[key] ELSE Undefined

\* Mutant of ImportRejects: the test is inverted.
ImportRejectsObjects(shape) == shape = "wellFormed"

\* !backup.state || typeof backup.state !== "object", or backup itself is
\* missing and reading backup.state throws: all end in return false
ImportRejects(shape) == shape # "wellFormed"

\* Mutant of MergedName: the backup's value is taken as it is.
MergedNameFromBackup(fromBackup, current) == fromBackup

\* backup.state.currentApiConfigName || currentState.currentApiConfigName
MergedName(fromBackup, current) ==
    IF StringTruthy(fromBackup) THEN fromBackup ELSE current

\* { ...backup.state, currentApiConfigName: ... }
MergedState(state, currentState) ==
    [k \in DOMAIN state \cup {"currentApiConfigName"} |->
        IF k = "currentApiConfigName"
          THEN MergedName(Field(state, k), currentState[k])
          ELSE state[k]]

\* The backups callers hand to importState: malformed ones, and well-formed
\* ones with any of the bulk values or an empty configuration name.
Backups(keys) ==
    {Backup(shape, NoState, 0, "") : shape \in {"missing", "noState", "stateNotObject"}}
    \cup {Backup("wellFormed", v, Epoch - DayMs, Workspace) :
            v \in {b \in BulkValues : DOMAIN b \subseteq keys}
                  \cup {[currentApiConfigName |-> Some("")]}}

\* importState(backup): up to the await of setValues; the backup is one of
\* Backups or, right after exportState, what that call returned
ImportState(c, keys) ==
    \E own \in BOOLEAN :
        \E backup \in IF own THEN {scalls[c].backup} ELSE Backups(keys) :
            LET rec == [SEnter(c, "importState") EXCEPT
                           !.backup = backup, !.ownExport = own,
                           !.before = Snapshot(settings, recentTasksCache)]
            IN  /\ SFree(c)
                /\ own => scalls[c].op = "exportState"
                /\ IF ImportRejects(backup.shape)
                     THEN /\ scalls' = [scalls EXCEPT ![c] =
                                [SDone(rec, "false") EXCEPT !.err = "Invalid backup format"]]
                          /\ UNCHANGED settings
                     ELSE /\ settings' = ProxySetValues(settings,
                                              MergedState(backup.state, settings))
                          /\ scalls' = [scalls EXCEPT ![c] = [rec EXCEPT !.pc = "write"]]
                /\ UNCHANGED <<recentTasksCache, now, taskVars>>

\* importState: setValues settled; its failure ends in the catch block
ImportSettled(c) ==
    \E ok \in BOOLEAN :
        LET rec == scalls[c]
        IN  /\ rec.op = "importState"
            /\ rec.pc = "write"
            /\ recentTasksCache' =
                  IF ok /\ SetValuesInvalidates(DOMAIN rec.backup.state)
                    THEN Undefined ELSE recentTasksCache
            /\ scalls' = [scalls EXCEPT ![c] =
                  [SDone(rec, IF ok THEN "true" ELSE "false")
                     EXCEPT !.err = IF ok THEN "" ELSE "setValues rejected"]]
            /\ UNCHANGED <<settings, now, taskVars>>

\* ------------------------------------------------------ specification
TaskInit ==
    /\ taskStack = <<>>
    /\ tasks = <<>>
    /\ calls = [c \in Callers |-> IdleCall]
    /\ nPush = 0
    /\ nPop = 0
    /\ pending = <<>>
    /\ removed = {}
    /\ prepCalls = {}
    /\ resumeSupported \in BOOLEAN

Step(c) ==
    \/ AddTaskToStack(c)
    \/ RemoveTaskFromStack(c)
    \/ RemoveSettled(c)
    \/ ClearCurrentTask(c)
    \/ ClearAllTasks(c)
    \/ ClearAllSettled(c)
    \/ CreateTask(c)
    \/ CreateTaskResumed(c)
    \/ CreateTaskWithHistoryItem(c)
    \/ CreateTaskWithHistoryItemResumed(c)
    \/ CancelTask(c)
    \/ CancelSettled(c)
    \/ ResumeTask(c)
    \/ FinishSubTask(c)
    \/ FinishRemoved(c)
    \/ FinishResumed(c)

\* The store after construction: nothing cached; the proxy holds what an earlier
\* session persisted.
StoreInit ==
    /\ settings \in [Keys -> {Undefined}]
                    \cup {[k \in Keys |-> IF k = "taskHistory" THEN Some(h) ELSE Undefined] :
                            h \in Histories}
    /\ recentTasksCache = Undefined
    /\ now = Epoch
    /\ scalls = [c \in Callers |-> SIdle]

StoreStep(c, keys) ==
    \/ UpdateGlobalState(c, keys)
    \/ UpdateGlobalStateSettled(c)
    \/ UpdateTaskHistory(c)
    \/ ResetTaskHistory(c)
    \/ SetValue(c, keys)
    \/ SetValueSettled(c)
    \/ SetValues(c, keys)
    \/ SetValuesSettled(c)
    \/ ResetState(c)
    \/ ResetStateSettled(c)
    \/ GetRecentTasks(c)
    \/ ClearCache(c)

\* The orchestrator alone, with an untouched store.
Init ==
    /\ TaskInit
    /\ settings = ProxyReset
    /\ recentTasksCache = Undefined
    /\ now = Epoch
    /\ scalls = [c \in Callers |-> SIdle]

\* Calls are serialised: one caller, one method at a time.
Next == Step(1)

Spec == Init /\ [][Next]_vars

\* The recent-tasks view on histories short and long: reads, cache clears and
\* history writes.
RecentInit ==
    /\ TaskInit
    /\ resumeSupported
    /\ settings \in {[k \in Keys |-> IF k = "taskHistory" THEN Some(h) ELSE Undefined] :
                        h \in Histories \cup LongHistories}
    /\ recentTasksCache = Undefined
    /\ now = Epoch
    /\ scalls = [c \in Callers |-> SIdle]

RecentNext ==
    \/ GetRecentTasks(1)
    \/ ClearCache(1)
    \/ UpdateTaskHistory(1)
    \/ ResetTaskHistory(1)
    \/ UpdateGlobalStateSettled(1)

RecentSpec == RecentInit /\ [][RecentNext]_vars

\* The settings facade: validation, synchronisation, export and import over
\* settings the callers write, with a history an earlier session persisted.
SettingsHistories ==
    {<<RecentItem>>, <<NoTsItem>>, <<NoIdItem, NoTsItem>>, <<RecentItem, OtherItem>>}

SettingKeys == Keys \ {"taskHistory"}

SettingsInit ==
    /\ TaskInit
    /\ resumeSupported
    /\ settings \in [Keys -> {Undefined}]
                    \cup {[k \in Keys |-> IF k = "taskHistory" THEN Some(h) ELSE Undefined] :
                            h \in SettingsHistories}
    /\ recentTasksCache = Undefined
    /\ now = Epoch
    /\ scalls = [c \in Callers |-> SIdle]

SettingsNext ==
    \/ SetValue(1, SettingKeys)
    \/ SetValueSettled(1)
    \/ SetValues(1, SettingKeys)
    \/ SetValuesSettled(1)
    \/ GetRecentTasks(1)
    \/ ValidateState(1)
    \/ SyncWithCloud(1)
    \/ ExportState(1)
    \/ ImportState(1, SettingKeys)
    \/ ImportSettled(1)

SettingsSpec == SettingsInit /\ [][SettingsNext]_vars

\* The store alone, with an empty orchestrator.
StoreSpecInit ==
    /\ TaskInit
    /\ resumeSupported
    /\ StoreInit

\* The callers of this specification write the history and the configuration
\* name; the numeric settings stay as they are.
StoreNext == StoreStep(1, HistoryKeys)

StoreSpec == StoreSpecInit /\ [][StoreNext]_vars

\* The store with calls that overlap: while one caller's history write is
\* suspended on the persistence layer, the other reads the recent tasks.
AsyncStoreNext ==
    \/ UpdateTaskHistory(1)
    \/ UpdateGlobalState(1, {"taskHistory"})
    \/ UpdateGlobalStateSettled(1)
    \/ \E c \in Callers : GetRecentTasks(c)

AsyncStoreSpec == StoreSpecInit /\ [][AsyncStoreNext]_vars

\* The orchestrator with calls that overlap: while caller 1 is suspended inside
\* finishSubTask or clearAllTasks, caller 2 creates, pushes, pops and clears.
AsyncNext ==
    \/ FinishSubTask(1)
    \/ FinishRemoved(1)
    \/ FinishResumed(1)
    \/ CreateTask(2)
    \/ CreateTaskResumed(2)
    \/ AddTaskToStack(2)
    \/ RemoveTaskFromStack(2)
    \/ RemoveSettled(2)
    \/ \E c \in Callers : ClearAllTasks(c)
    \/ \E c \in Callers : ClearAllSettled(c)

AsyncSpec == Init /\ [][AsyncNext]_vars

\* Every abort that was requested settles: the continuation that waits for it
\* is eventually run.  Pushes stop because the run constructs at most MaxTasks
\* tasks and pushes at most MaxPush times.
AbortsSettle ==
    /\ \A c \in Callers : WF_vars(ClearAllSettled(c))
    /\ WF_vars(RemoveSettled(2))
    /\ WF_vars(FinishRemoved(1))

FairAsyncSpec == Init /\ [][AsyncNext]_vars /\ AbortsSettle

\* ============================================================== claims
Front(seq) == SubSeq(seq, 1, Len(seq) - 1)

Top(seq) == seq[Len(seq)]

Finished(op) == calls[1].op = op /\ calls[1].pc = "done"

LogOf(e) == SelectSeq(calls[1].log, LAMBDA ev : ev.e = e)

\* C1: starting from the empty stack, after n pushes and m <= n pops the stack
\* size is n - m and the stack lists exactly the tasks pushed and not yet
\* popped, bottom to top in push order, each pop having taken the most recently
\* pushed remaining task; a pop on the empty stack changes nothing.
C1_PushPopLifo ==
    /\ nPop <= nPush
    /\ getTaskStackSize = nPush - nPop
    /\ taskStack = pending
    /\ getCurrentTaskStack = [i \in 1..Len(pending) |-> tasks[pending[i]].taskId]
    /\ getCurrentTask = IF pending = <<>> THEN NoTask ELSE Top(pending)
    /\ (Finished("removeTaskFromStack") /\ calls[1].stack0 = <<>>)
          => taskStack = <<>> /\ calls[1].log = <<>>

C1_Witness ==
    /\ nPush = 3
    /\ nPop = 1
    /\ Finished("addTaskToStack")
    /\ Len(taskStack) = 2

C3_FinishSubTask ==
    Finished("finishSubTask") =>
        LET rec == calls[1]
            resumes == LogOf("Resume")
        IN  /\ Len(rec.stack0) >= 1 => taskStack = Front(rec.stack0)
            /\ Len(rec.stack0) >= 2 =>
                  IF resumeSupported
                    THEN resumes = <<Ev("Resume", Top(Front(rec.stack0)), rec.msg)>>
                    ELSE resumes = <<>>
            /\ Len(rec.stack0) <= 1 => taskStack = <<>> /\ resumes = <<>>

C3_Witness ==
    /\ Finished("finishSubTask")
    /\ Len(calls[1].stack0) = 3
    /\ Len(taskStack) = 2
    /\ calls[1].msg = "m2"
    /\ Len(LogOf("Resume")) = 1

\* C4: when the abort of the task popped by removeTaskFromStack rejects, the task
\* is removed all the same: the entry is gone before the abort is requested, and
\* the stack after the call is the prior stack without its top, the rest as it was.
C4_RemovedDespiteAbortFailure ==
    (calls[1].op = "removeTaskFromStack" /\ calls[1].stack0 # <<>>) =>
        /\ taskStack = Front(calls[1].stack0)
        /\ calls[1].task = Top(calls[1].stack0)
        /\ Len(LogOf("AbortRequested")) = 1

C4_Witness ==
    /\ Finished("removeTaskFromStack")
    /\ Len(calls[1].stack0) = 2
    /\ Len(LogOf("AbortRejected")) = 1
    /\ taskStack = Front(calls[1].stack0)

\* C5: no operation that requests an abort (removeTaskFromStack,
\* clearCurrentTask, clearAllTasks, finishSubTask, cancelTask) throws the abort's
\* failure on to its caller, and cancelTask leaves the stack as it was.
C5_AbortFailureNeverRethrown ==
    /\ calls[1].pc = "done" => calls[1].err # "abort rejected"
    /\ calls[1].op = "cancelTask" => taskStack = calls[1].stack0

\* C6: one clearAllTasks call on a stack [t1..tk] requests the abort of every
\* task exactly once, in the order tk .. t1, each abort settled before the next
\* task is popped, and a rejected abort does not stop the pops below it.
C6_ClearAllOrder ==
    calls[1].op = "clearAllTasks" =>
        LET rec == calls[1]
            k == Len(rec.stack0)
            popped == k - Len(taskStack)
            target(j) == rec.stack0[k - ((j - 1) \div 3)]
        IN  /\ taskStack = SubSeq(rec.stack0, 1, k - popped)
            /\ Len(rec.log) = IF rec.pc = "done" THEN 3 * popped ELSE 3 * popped - 1
            /\ rec.pc = "done" => popped = k /\ rec.ret = "ok"
            /\ \A j \in 1..Len(rec.log) :
                  /\ rec.log[j].t = target(j)
                  /\ rec.log[j].e \in
                        CASE j % 3 = 1 -> {"Unfocused"}
                          [] j % 3 = 2 -> {"AbortRequested"}
                          [] OTHER -> {"AbortResolved", "AbortRejected"}

C6_Witness ==
    /\ Finished("clearAllTasks")
    /\ Len(calls[1].stack0) = 3
    /\ calls[1].log[3].e = "AbortRejected"
    /\ calls[1].log[6].e = "AbortResolved"
    /\ taskStack = <<>>

\* C7: createTask and createTaskWithHistoryItem leave the stack alone until the
\* Task is constructed: if getState rejects, the state is unusable or the
\* constructor throws, the call fails with the stack as before and no Focused
\* event; on success the stack is the prior stack with the new task on top.
C7_CreateIsAllOrNothing ==
    calls[1].op \in {"createTask", "createTaskWithHistoryItem"} =>
        LET rec == calls[1]
        IN  /\ rec.pc = "getState" => taskStack = rec.stack0 /\ rec.log = <<>>
            /\ (rec.pc = "done" /\ (rec.state # "usable" \/ ~rec.ctorOk)) =>
                  /\ rec.ret = "throw"
                  /\ taskStack = rec.stack0
                  /\ rec.log = <<>>
            /\ (rec.pc = "done" /\ rec.state = "usable" /\ rec.ctorOk) =>
                  /\ rec.ret = "ok"
                  /\ taskStack = Append(rec.stack0, rec.task)
                  /\ rec.task = Len(tasks)
                  /\ \A i \in 1..Len(rec.stack0) : rec.stack0[i] # rec.task
                  /\ rec.log = <<Ev("Focused", rec.task, "")>>

C7_Witness ==
    /\ Finished("createTask")
    /\ calls[1].state = "noApiConfiguration"
    /\ calls[1].ret = "throw"
    /\ Len(calls[1].stack0) = 1
    /\ taskStack = calls[1].stack0

\* C8: for every task created through the orchestrator, performPreparationTasks
\* is invoked for it before it is pushed and focused, and a failure of the hook
\* reaches the caller of createTask.
C8_PreparedBeforeCurrent ==
    \A i \in 1..Len(taskStack) :
        tasks[taskStack[i]].origin \in {"createTask", "createTaskWithHistoryItem"}
            => taskStack[i] \in prepCalls

\* C9: resumeTask(taskId) returns true iff a task with that id is in the stack;
\* it never changes the stack; it emits Focused on the task it found only when
\* that task is not the current one, and emits nothing otherwise.
C9_ResumeTask ==
    Finished("resumeTask") =>
        LET rec == calls[1]
            present == \E i \in 1..Len(taskStack) : tasks[taskStack[i]].taskId = rec.id
        IN  /\ rec.ret = IF present THEN "true" ELSE "false"
            /\ taskStack = rec.stack0
            /\ ~present => rec.log = <<>>
            /\ present =>
                  /\ \E i \in 1..Len(taskStack) : taskStack[i] = rec.task
                  /\ tasks[rec.task].taskId = rec.id
                  /\ rec.log = IF rec.task = Top(taskStack)
                                 THEN <<>> ELSE <<Ev("Focused", rec.task, "")>>

C9_Witness ==
    /\ Finished("resumeTask")
    /\ calls[1].ret = "true"
    /\ Len(taskStack) = 2
    /\ calls[1].task = taskStack[1]
    /\ calls[1].log = <<Ev("Focused", taskStack[1], "")>>

\* C10: once a write of the history key through the store has completed
\* (updateGlobalState or setValue of "taskHistory", updateTaskHistory, setValues,
\* resetTaskHistory, resetState), nothing is cached, and the next getRecentTasks
\* computes its result from the history as it now is.
C10_WriteInvalidatesCache ==
    /\ CompletedHistoryWrite(scalls[1]) => ~recentTasksCached
    /\ (scalls[1].op = "getRecentTasks" /\ scalls[1].afterWrite) =>
          /\ ~scalls[1].cached
          /\ scalls[1].result = ComputeRecentTasks(getTaskHistory, now)

C10_Witness ==
    /\ scalls[1].op = "getRecentTasks"
    /\ scalls[1].afterWrite
    /\ getTaskHistory = <<OldItem, OtherItem>>
    /\ scalls[1].result = <<2, 1>>

\* The task a finished, successful createTask call constructed and pushed.
CreatedNow == Finished("createTask") /\ calls[1].ret = "ok"

\* The stack the call found holds tasks made by createTask only, each once, in
\* creation order, its bottom never popped: the stack has not been empty since
\* the bottom task was created, and the tasks of that lifetime are those
\* constructed from the bottom task on.
PureLifetime(stack) ==
    /\ stack # <<>>
    /\ stack[1] \notin removed
    /\ \A i \in 1..Len(stack) : tasks[stack[i]].origin = "createTask"
    /\ \A i \in 1..(Len(stack) - 1) : stack[i] < stack[i + 1]

\* C17 (as stated): over createTask and pop operations during which the stack
\* never becomes empty, a newly created task's taskNumber is greater than the
\* taskNumber of every task created earlier in that lifetime.
C17_TaskNumberMonotonic ==
    (CreatedNow /\ PureLifetime(calls[1].stack0)) =>
        \A u \in (calls[1].stack0[1])..(calls[1].task - 1) :
            tasks[u].origin = "createTask"
                => tasks[u].taskNumber < tasks[calls[1].task].taskNumber

\* C17 (amended): createTask assigns taskNumber = stack depth at creation + 1,
\* which is greater than the taskNumber of every task beneath the new one that
\* createTask created and that has never been popped; a task created after a
\* pop repeats the number of the popped task.
C17_TaskNumberIsDepthPlusOne ==
    CreatedNow =>
        LET t == calls[1].task
            stack0 == calls[1].stack0
        IN  /\ tasks[t].taskNumber = Len(stack0) + 1
            /\ \A i \in 1..Len(stack0) :
                   (tasks[stack0[i]].origin = "createTask" /\ stack0[i] \notin removed)
                       => tasks[stack0[i]].taskNumber < tasks[t].taskNumber

\* A task is created above a surviving bottom task after an earlier task of
\* the same lifetime was popped, and gets the popped task's number.
C17_Witness ==
    /\ CreatedNow
    /\ PureLifetime(calls[1].stack0)
    /\ \E u \in removed :
           /\ calls[1].stack0[1] < u
           /\ u < calls[1].task
           /\ tasks[u].origin = "createTask"
           /\ tasks[u].taskNumber = tasks[calls[1].task].taskNumber

\* How often an instance occurs in a stack.
Occurrences(stack, t) == Cardinality({i \in 1..Len(stack) : stack[i] = t})

\* C18 (as stated): once an instance has been popped it is never on the stack
\* again, whatever public operations are called (addTaskToStack with the same
\* instance included), and no instance appears twice in the stack.
C18_RemovedIsTerminal ==
    \A i \in 1..Len(taskStack) :
        /\ taskStack[i] \notin removed
        /\ Occurrences(taskStack, taskStack[i]) = 1

\* C18 (amended): no operation other than addTaskToStack ever puts an instance
\* on the stack that was on it before: createTask and createTaskWithHistoryItem
\* push the instance they have just constructed, exactly once, and every other
\* operation leaves the occurrences of each instance as they are or lowers
\* them.  addTaskToStack pushes whatever instance it is given.
C18_OnlyAddTaskToStackRepushes ==
    [][calls'[1].op # "addTaskToStack" =>
          /\ \A t \in 1..Len(tasks) :
                 Occurrences(taskStack', t) <= Occurrences(taskStack, t)
          /\ \A t \in (Len(tasks) + 1)..Len(tasks') :
                 /\ Occurrences(taskStack', t) = 1
                 /\ t \notin removed']_vars

\* A create operation has pushed a new instance after another was popped, and
\* the popped one is not on the stack.
C18_Witness ==
    /\ calls[1].op \in {"createTask", "createTaskWithHistoryItem"}
    /\ calls[1].pc = "done"
    /\ calls[1].ret = "ok"
    /\ removed # {}
    /\ Top(taskStack) = calls[1].task
    /\ \A i \in 1..Len(taskStack) : taskStack[i] \notin removed

SFinished(op) == scalls[1].op = op /\ scalls[1].pc = "done"

\* C11 (as stated): the recent-tasks cache and every value getRecentTasks
\* returns hold at most 100 entries, whichever branch of the sizing policy
\* produced them and whatever the timestamps are.
C11_AtMostLimitEntries ==
    /\ recentTasksCached => Len(recentTasksCache[1]) <= RecentLimit
    /\ SFinished("getRecentTasks") => Len(scalls[1].result) <= RecentLimit

\* The positions of the history records getRecentTasks is to list at time t:
\* those with a timestamp, a task text and the store's workspace; when there
\* are 100 or more of them, only those of the last seven days.
Listed(history, t) ==
    LET match == {i \in 1..Len(history) :
                     /\ history[i].ts # 0
                     /\ history[i].task # ""
                     /\ history[i].workspace = Workspace}
    IN  IF Cardinality(match) >= RecentLimit
          THEN {i \in match : history[i].ts >= t - 7 * DayMs}
          ELSE match

\* ids lists the ids of the records at the positions in listed, each as often
\* as it occurs there, by descending timestamp.
ListsByTsDesc(ids, history, listed) ==
    LET idsListed == {history[i].id : i \in listed}
        tsOf == [x \in idsListed |-> {history[i].ts : i \in {j \in listed : history[j].id = x}}]
    IN  /\ Len(ids) = Cardinality(listed)
        /\ \A k \in 1..Len(ids) : ids[k] \in idsListed
        /\ \A x \in idsListed :
               Cardinality({k \in 1..Len(ids) : ids[k] = x})
                  = Cardinality({i \in listed : history[i].id = x})
        /\ \A k \in 1..(Len(ids) - 1) :
               \E a \in tsOf[ids[k]], b \in tsOf[ids[k + 1]] : a >= b

\* C12: with nothing cached, getRecentTasks returns the ids of exactly the
\* history records that have a timestamp, a task text and the store's
\* workspace, by descending timestamp; only those of the last seven days when
\* there are 100 or more such records, all of them when there are fewer.
\* Records of other workspaces never appear.
C12_RecentTasksContent ==
    (SFinished("getRecentTasks") /\ ~scalls[1].cached) =>
        ListsByTsDesc(scalls[1].result, getTaskHistory, Listed(getTaskHistory, now))

\* A miss on a history of 150 records of which some are older than seven days
\* returned fewer ids than records, and more than none.
C12_Witness ==
    /\ SFinished("getRecentTasks")
    /\ ~scalls[1].cached
    /\ Len(getTaskHistory) = RecentLimit + RecentLimit \div 2
    /\ Len(scalls[1].result) < Len(getTaskHistory)
    /\ Len(scalls[1].result) > 0

\* A miss on a history of 50 records returned all 50, newest first.
C12_WitnessSmall ==
    /\ SFinished("getRecentTasks")
    /\ ~scalls[1].cached
    /\ Len(getTaskHistory) = RecentLimit \div 2
    /\ Len(scalls[1].result) = RecentLimit \div 2
    /\ scalls[1].result[1] = getTaskHistory[RecentLimit \div 2].id

UniqueIds(history) ==
    \A i, j \in 1..Len(history) : history[i].id = history[j].id => i = j

\* The persisted history a call found when it started.
HistoryBefore(rec) ==
    IF rec.before.settings["taskHistory"] = Undefined
      THEN <<>> ELSE rec.before.settings["taskHistory"][1]

\* C14: updateTaskHistory(item) on a history with unique ids leaves a persisted
\* history with unique ids: an item whose id exists replaces the entry at the
\* same position, length and all other entries unchanged; an item with a new
\* id is appended at the end; no other entry is lost or moved; and the
\* sequence returned is the full persisted history.
C14_UpdateKeepsIdsUnique ==
    LET rec == scalls[1]
        h0 == HistoryBefore(rec)
        h1 == getTaskHistory
        known == \E i \in 1..Len(h0) : h0[i].id = rec.item.id
    IN  (rec.op = "updateTaskHistory" /\ UniqueIds(h0)) =>
            /\ UniqueIds(h1)
            /\ known =>
                  /\ Len(h1) = Len(h0)
                  /\ \A i \in 1..Len(h0) :
                         h1[i] = IF h0[i].id = rec.item.id THEN rec.item ELSE h0[i]
            /\ ~known =>
                  /\ Len(h1) = Len(h0) + 1
                  /\ h1[Len(h1)] = rec.item
                  /\ \A i \in 1..Len(h0) : h1[i] = h0[i]
            /\ (rec.pc = "done" /\ rec.ret = "ok") => rec.result = h1

\* An update replaced the first of two entries by a different record of the
\* same id and returned.
C14_Witness ==
    LET rec == scalls[1]
        h0 == HistoryBefore(rec)
    IN  /\ SFinished("updateTaskHistory")
        /\ rec.ret = "ok"
        /\ UniqueIds(h0)
        /\ Len(h0) = 2
        /\ h0[1].id = rec.item.id
        /\ h0[1] # rec.item
        /\ getTaskHistory = <<rec.item, h0[2]>>

\* The call left the settings (the history among them) and the cache as it
\* found them.
LeftUntouched(rec) ==
    /\ settings = rec.before.settings
    /\ recentTasksCache = rec.before.cache

Count(seq, x) == Cardinality({i \in 1..Len(seq) : seq[i] = x})

\* A numeric setting is present and outside lo..hi.
PresentOutside(v, lo, hi) == v # Undefined /\ (v[1] < lo \/ v[1] > hi)

\* C13 (as stated): validateState reports one error for each history item
\* without id or ts, one when maxOpenTabsContext is present and outside
\* [1,100] (0 in particular), one when maxWorkspaceFiles is present and outside
\* [1,1000]; isValid is true exactly when there is no error; nothing is
\* mutated.
C13_ValidateReportsEveryViolation ==
    LET rec == scalls[1]
        history == getTaskHistory
    IN  SFinished("validateState") =>
            /\ Count(rec.errors, ItemError)
                  = Cardinality({i \in 1..Len(history) :
                                    history[i].id = 0 \/ history[i].ts = 0})
            /\ Count(rec.errors, TabsError)
                  = IF PresentOutside(settings["maxOpenTabsContext"], 1, 100) THEN 1 ELSE 0
            /\ Count(rec.errors, FilesError)
                  = IF PresentOutside(settings["maxWorkspaceFiles"], 1, 1000) THEN 1 ELSE 0
            /\ Len(rec.errors) = Count(rec.errors, ItemError)
                  + Count(rec.errors, TabsError) + Count(rec.errors, FilesError)
            /\ rec.ret = IF Len(rec.errors) = 0 THEN "valid" ELSE "invalid"
            /\ LeftUntouched(rec)

\* C16: syncWithCloud never throws; it returns {success: false} exactly when
\* validateState reports the state invalid or throws, {success: true,
\* changes: 0} otherwise; settings, history and cache stay as they were.
C16_SyncNeverThrows ==
    LET rec == scalls[1]
        invalid == ValidationErrors(settings, getTaskHistory) # <<>>
        threw == rec.err # ""
    IN  SFinished("syncWithCloud") =>
            /\ rec.ret \in {"success", "failure"}
            /\ rec.ret = "failure" <=> (invalid \/ threw)
            /\ rec.ret = "success" => rec.changes = Some(0)
            /\ rec.ret = "failure" => rec.changes = Undefined
            /\ LeftUntouched(rec)

\* A synchronisation failed on an invalid history although nothing threw,
\* with a cache in place that it left alone.
C16_Witness ==
    /\ SFinished("syncWithCloud")
    /\ scalls[1].ret = "failure"
    /\ scalls[1].err = ""
    /\ scalls[1].errors # <<>>
    /\ recentTasksCached

\* A synchronisation succeeded.
C16_WitnessSuccess ==
    /\ SFinished("syncWithCloud")
    /\ scalls[1].ret = "success"
    /\ settings["maxOpenTabsContext"] = Some(50)

\* C15: with currentApiConfigName set, importState(exportState()) returns true
\* and leaves the settings equal to those exported (unless the write itself
\* is rejected, which returns false with the settings still equal);
\* exportState changes neither settings, history nor cache.
C15_ExportImportRoundTrip ==
    LET rec == scalls[1]
    IN  /\ SFinished("exportState") =>
              /\ rec.backup.shape = "wellFormed"
              /\ rec.backup.state = settings
              /\ LeftUntouched(rec)
        /\ (rec.op = "importState" /\ rec.ownExport
               /\ StringTruthy(rec.before.settings["currentApiConfigName"])) =>
              /\ settings = rec.before.settings
              /\ rec.pc = "done" => rec.err # "Invalid backup format"
              /\ (rec.pc = "done" /\ rec.err = "") => rec.ret = "true"

\* An import of the backup just exported returned true on settings with a
\* configuration name, a numeric setting and a history.
C15_Witness ==
    /\ SFinished("importState")
    /\ scalls[1].ownExport
    /\ scalls[1].ret = "true"
    /\ settings["currentApiConfigName"] = Some("other")
    /\ settings["maxOpenTabsContext"] = Some(50)
    /\ settings["taskHistory"] # Undefined
    /\ settings = scalls[1].backup.state

\* C19: importState never throws; it returns false for a malformed backup,
\* leaving settings, history and cache as they were, and false when applying
\* the backup fails; for a well-formed backup it returns true, and
\* currentApiConfigName is then the backup's value when the backup has one,
\* the value from before the import otherwise.
C19_ImportState ==
    LET rec == scalls[1]
        malformed == rec.backup.shape # "wellFormed"
        supplied == Field(rec.backup.state, "currentApiConfigName")
    IN  SFinished("importState") =>
            /\ rec.ret \in {"true", "false"}
            /\ malformed => (rec.ret = "false" /\ LeftUntouched(rec))
            /\ (~malformed /\ rec.err # "") => rec.ret = "false"
            /\ (~malformed /\ rec.err = "") =>
                  /\ rec.ret = "true"
                  /\ settings["currentApiConfigName"] =
                        IF supplied # Undefined /\ supplied # Some("")
                          THEN supplied
                          ELSE rec.before.settings["currentApiConfigName"]
                  /\ \A k \in DOMAIN rec.backup.state \ {"currentApiConfigName"} :
                         settings[k] = rec.backup.state[k]

\* A well-formed backup without a configuration name was imported over
\* settings that had one, which is kept.
C19_Witness ==
    /\ SFinished("importState")
    /\ scalls[1].ret = "true"
    /\ "currentApiConfigName" \notin DOMAIN scalls[1].backup.state
    /\ scalls[1].before.settings["currentApiConfigName"] = Some("default")
    /\ settings["currentApiConfigName"] = Some("default")
    /\ settings["maxOpenTabsContext"] # scalls[1].before.settings["maxOpenTabsContext"]

\* A malformed backup was rejected with a cache in place.
C19_WitnessMalformed ==
    /\ SFinished("importState")
    /\ scalls[1].backup.shape = "noState"
    /\ scalls[1].ret = "false"
    /\ recentTasksCached

\* A history write of caller 1 is suspended on the persistence layer.
WriteSuspended ==
    /\ scalls[1].op \in {"updateTaskHistory", "updateGlobalState"}
    /\ scalls[1].key = "taskHistory"
    /\ scalls[1].pc = "write"

\* C20 (as stated): at every state, also in the middle of an operation, a
\* defined recent-tasks cache equals what getRecentTasks would compute from
\* the history getTaskHistory returns (clock fixed); and a getRecentTasks call
\* made while a history write is suspended, after the history was modified
\* and before the cache is invalidated, returns that sequence.
C20_CacheCoherent ==
    /\ recentTasksCached =>
          recentTasksCache[1] = ComputeRecentTasks(getTaskHistory, now)
    /\ (WriteSuspended /\ scalls[2].op = "getRecentTasks" /\ scalls[2].pc = "done") =>
          scalls[2].result = ComputeRecentTasks(getTaskHistory, now)

\* The task directly beneath the one finishSubTask popped, at the pop.
ParentAtPop(rec) ==
    IF Len(rec.stack0) >= 2 THEN rec.stack0[Len(rec.stack0) - 1] ELSE NoTask

\* C21 (as stated): the task finishSubTask resumes is the task that was
\* directly beneath the popped subtask at the pop, also when another
\* operation runs while finishSubTask awaits the abort: lastMessage never
\* goes to a task pushed after the pop, and a parent that is still on the
\* stack is resumed.
C21_ResumesParentAtPop ==
    LET rec == calls[1]
        resumes == LogOf("Resume")
    IN  (rec.op = "finishSubTask" /\ rec.stack0 # <<>>) =>
            /\ \A i \in 1..Len(resumes) : resumes[i].t = ParentAtPop(rec)
            /\ (rec.pc \in {"resume", "done"} /\ rec.ret # "throw" /\ resumeSupported
                   /\ ParentAtPop(rec) # NoTask /\ ParentAtPop(rec) \notin removed)
                  => Len(resumes) = 1

PopOps == {"removeTaskFromStack", "clearCurrentTask", "clearAllTasks", "finishSubTask"}

PushOps == {"addTaskToStack", "createTask", "createTaskWithHistoryItem"}

OnStack(t) == \E i \in 1..Len(taskStack) : taskStack[i] = t

\* A push emitted Focused on the task it put on top of the stack.
FocusedAtPush ==
    (calls[1].op \in PushOps /\ calls[1].pc = "done" /\ calls[1].ret = "ok") =>
        /\ calls[1].log = <<Ev("Focused", calls[1].task, "")>>
        /\ taskStack = Append(calls[1].stack0, calls[1].task)

\* A pop operation has, for each task it popped so far (top of the stack it
\* found first), emitted Unfocused once and then at once requested the abort
\* once, and for no other task; the popped entries are off the stack.
UnfocusedThenAbortPerPop ==
    LET rec == calls[1]
        k == Len(rec.stack0)
        popped == k - Len(taskStack)
        protocol == SelectSeq(rec.log, LAMBDA ev : ev.e \in {"Unfocused", "AbortRequested"})
    IN  rec.op \in PopOps =>
            /\ taskStack = SubSeq(rec.stack0, 1, k - popped)
            /\ Len(protocol) = 2 * popped
            /\ \A j \in 1..popped :
                   /\ protocol[2 * j - 1] = Ev("Unfocused", rec.stack0[k - j + 1], "")
                   /\ protocol[2 * j] = Ev("AbortRequested", rec.stack0[k - j + 1], "")
            /\ \A i \in 1..Len(rec.log) :
                   rec.log[i].e = "Unfocused" =>
                       /\ i < Len(rec.log)
                       /\ rec.log[i + 1] = Ev("AbortRequested", rec.log[i].t, "")

\* C22 (as stated): Focused is emitted on every task at its push; each pop
\* emits Unfocused on the popped task once, after it left the stack and before
\* its abort is requested, and requests the abort once; no pop operation emits
\* Unfocused on, or requests the abort of, a task that is still on the stack.
C22_EventAbortProtocol ==
    /\ FocusedAtPush
    /\ UnfocusedThenAbortPerPop
    /\ calls[1].op \in PopOps =>
          \A i \in 1..Len(calls[1].log) :
              calls[1].log[i].e \in {"Unfocused", "AbortRequested"}
                  => ~OnStack(calls[1].log[i].t)

\* C22 (amended): as stated, except that the task a pop unfocuses and aborts
\* is still on the stack when the same instance had been put on the stack
\* more than once; the entry popped is off the stack in every case.
C22_EventAbortProtocolPerEntry ==
    /\ FocusedAtPush
    /\ UnfocusedThenAbortPerPop
    /\ calls[1].op \in PopOps =>
          \A i \in 1..Len(calls[1].log) :
              (calls[1].log[i].e \in {"Unfocused", "AbortRequested"}
                  /\ OnStack(calls[1].log[i].t))
                  => Occurrences(calls[1].stack0, calls[1].log[i].t) >= 2

\* clearAllTasks has popped two different tasks, and before it a push had
\* focused the upper one.
C22_Witness ==
    /\ Finished("clearAllTasks")
    /\ Len(calls[1].stack0) = 2
    /\ calls[1].stack0[1] # calls[1].stack0[2]
    /\ Len(LogOf("Unfocused")) = 2
    /\ Len(LogOf("AbortRequested")) = 2
    /\ taskStack = <<>>

ClearAllSuspended == calls[1].op = "clearAllTasks" /\ calls[1].pc = "abort"

ClearAllCompletes ==
    /\ calls'[1].op = "clearAllTasks"
    /\ calls'[1].pc = "done"
    /\ calls'[1] # calls[1]

\* C23: when every requested abort settles and pushes stop, a clearAllTasks
\* that is suspended awaiting an abort eventually completes without throwing,
\* and in the step in which clearAllTasks completes the stack is empty, also
\* when tasks were pushed while it was suspended.
C23_ClearAllTasksTerminates ==
    /\ ClearAllSuspended ~> (Finished("clearAllTasks") /\ calls[1].ret = "ok")
    /\ [][ClearAllCompletes => taskStack' = <<>>]_vars

\* clearAllTasks has completed after popping more tasks than the stack held
\* when it was called: at least one was pushed while it was suspended.
C23_Witness ==
    /\ Finished("clearAllTasks")
    /\ calls[1].ret = "ok"
    /\ calls[1].stack0 # <<>>
    /\ Len(LogOf("Unfocused")) > Len(calls[1].stack0)
    /\ taskStack = <<>>

====
